---- MODULE Spec2Model ----
(***************************************************************************)
(* Receipt allocation and invoice settlement of the billing backend.       *)
(*                                                                         *)
(* The store is the set of rows of the tables invoices (with their line    *)
(* items), receipts, receipt_allocations and credit_notes.  Every request  *)
(* handler of app/api/v1/endpoints is one action; its HTTP outcome is      *)
(* recorded in resp.                                                       *)
(*                                                                         *)
(* Money.  Columns are DECIMAL(15,2): a stored amount is an integer number *)
(* of cents.  Request bodies carry JSON floats, which are not restricted   *)
(* to two decimals: a request amount is an integer number of mills         *)
(* (1/1000), and storing it rounds it to cents (ToNumeric2).  Binary       *)
(* floating point error of the handlers' float arithmetic is not modelled: *)
(* sums and comparisons of request amounts are exact.                      *)
(***************************************************************************)
EXTENDS Integers, Sequences, FiniteSets, TLC

VARIABLES customers, invoices, receipts, allocations, credit_notes,
          invoice_seq, sessions, today, inflight, resp, hist

store == <<customers, invoices, receipts, allocations, credit_notes, invoice_seq,
           sessions>>
vars == <<customers, invoices, receipts, allocations, credit_notes,
          invoice_seq, sessions, today, inflight, resp, hist>>

----------------------------------------------------------------------------
(* Bounds of the model *)

MaxInvoices == 2
MaxReceipts == 2
MaxDay == 1
MaxSessions == 2
MaxRefreshes == 1

(* Program constants *)

\* schemas/receipt.py: amountAllocated must be at least 0.01 (in mills)
MinAllocated == 10
\* schemas/receipt.py: amountReceived must be at least 1 (in mills)
MinReceived == 1000
\* schemas/invoice.py: quantity must be at least 1 (in hundredths)
MinQuantity == 100
\* schemas/invoice.py, schemas/credit_note.py: a rate is at most 100 percent
MaxPercent == 100
\* schemas/credit_note.py: amount must be at least 1 (in mills)
MinCreditAmount == 1000

----------------------------------------------------------------------------
(* The tenants, customers and service types the requests refer to *)

Tenants == {"T1", "T2"}
CustomerIds == {"c1", "c2", "c3"}
CustomerRows == {[id |-> "c1", tenant_id |-> "T1", is_active |-> TRUE],
                 [id |-> "c2", tenant_id |-> "T1", is_active |-> TRUE],
                 [id |-> "c3", tenant_id |-> "T2", is_active |-> TRUE]}
ServiceTypeRows == {[id |-> "s1", tenant_id |-> "T1"],
                    [id |-> "s2", tenant_id |-> "T2"]}

InvoiceIds == 1..MaxInvoices
Dates == 0..MaxDay
\* a date's year: every model day lies in a year of its own
Year(d) == d

\* a business number that was not supplied (None or the empty string)
NoNumber == <<>>
\* f"{prefix}-{year}-{count:04d}"
FormatNumber(prefix, year, count) == <<prefix, year, count>>

----------------------------------------------------------------------------
(* Arithmetic *)

RECURSIVE SumOver(_, _)
SumOver(f, S) ==
  IF S = {} THEN 0
  ELSE LET x == CHOOSE y \in S : TRUE IN f[x] + SumOver(f, S \ {x})

RECURSIVE SeqSum(_)
SeqSum(s) == IF s = <<>> THEN 0 ELSE Head(s) + SeqSum(Tail(s))

\* round(x, 2) of Python for x = n / d hundredths: to nearest, ties to even
RoundHalfEven(n, d) ==
  LET q == n \div d
      r == n % d
  IN IF 2 * r < d THEN q
     ELSE IF 2 * r > d THEN q + 1
     ELSE IF q % 2 = 0 THEN q ELSE q + 1

\* a request amount (mills) stored in a DECIMAL(15,2) column (cents):
\* PostgreSQL rounds to the column's scale, ties away from zero
ToNumeric2(mills) == (mills + 5) \div 10

\* float(column): a stored amount (cents) read back as a request-scale number
ToFloat(cents) == cents * 10

----------------------------------------------------------------------------
(* Queries *)

CustomerInTenant(c, t) == \E r \in customers : r.id = c /\ r.tenant_id = t

InvoiceById(id) == CHOOSE i \in invoices : i.id = id

AllocationsOf(invoice_id) == {a \in allocations : a.invoice_id = invoice_id}

\* func.sum(ReceiptAllocation.allocated_amount) for one invoice, in cents
SumAllocated(invoice_id) ==
  LET A == AllocationsOf(invoice_id)
  IN SumOver([a \in A |-> a.allocated_amount], A)

ReceiptAllocations(receipt_id) == {a \in allocations : a.receipt_id = receipt_id}

SumOfReceipt(receipt_id) ==
  LET A == ReceiptAllocations(receipt_id)
  IN SumOver([a \in A |-> a.allocated_amount], A)

CreditNotesOf(invoice_id) ==
  {c \in credit_notes : c.invoice_id = invoice_id /\ c.status # "Cancelled"}

\* func.sum(CreditNote.total_credit) over the non-cancelled notes, in cents
SumCredits(invoice_id) ==
  LET C == CreditNotesOf(invoice_id)
  IN SumOver([c \in C |-> c.total_credit], C)

----------------------------------------------------------------------------
(* Settlement status resolver *)

\* a slip of calculate_invoice_status: the due date is looked at first
calculate_invoice_status_DueDateFirst(invoice) ==
  IF invoice.due_date < today THEN "Overdue"
  ELSE IF SumAllocated(invoice.id) >= invoice.total THEN "Paid"
  ELSE "Pending"

calculate_invoice_status(invoice) ==
  IF SumAllocated(invoice.id) >= invoice.total THEN "Paid"
  ELSE IF invoice.due_date < today THEN "Overdue"
  ELSE "Pending"

----------------------------------------------------------------------------
(* Responses and the history of the last request *)

Response(op, code, detail, id, status) ==
  [op |-> op, code |-> code, detail |-> detail, id |-> id, status |-> status,
   rows |-> {}]

NoFacts == [bad_customer |-> FALSE, bad_invoice |-> FALSE, paid_target |-> FALSE,
            over_outstanding |-> FALSE, over_received |-> FALSE,
            dup_number |-> FALSE, over_credit |-> FALSE, exact |-> {},
            valid |-> FALSE]

NoResponse == Response("none", 0, "", 0, "")

\* the server takes a request when no response is waiting for its client
Idle == resp = NoResponse

Init ==
  /\ customers = CustomerRows
  /\ invoices = {}
  /\ receipts = {}
  /\ allocations = {}
  /\ credit_notes = {}
  /\ invoice_seq = 0
  /\ sessions = {}
  /\ today = 0
  /\ inflight = {}
  /\ resp = NoResponse
  /\ hist = NoFacts

----------------------------------------------------------------------------
(* POST /invoices *)

\* a line item draft: quantity and rate in hundredths, taxRate in percent;
\* the results are in cents
calculate_line_item_amounts(li) ==
  [amount     |-> RoundHalfEven(li.quantity * li.rate, 100),
   tax_amount |-> RoundHalfEven(li.quantity * li.rate * li.taxRate, 10000),
   total      |-> RoundHalfEven(li.quantity * li.rate * (100 + li.taxRate), 10000)]

InvoiceSchemaOk(p) ==
  /\ Len(p.lineItems) >= 1
  /\ p.dueDate >= p.invoiceDate
  /\ \A k \in 1..Len(p.lineItems) :
       /\ p.lineItems[k].quantity >= MinQuantity
       /\ p.lineItems[k].rate >= 0
       /\ p.lineItems[k].taxRate >= 0
       /\ p.lineItems[k].taxRate <= MaxPercent

ServiceTypesOk(t, p) ==
  LET ids == {p.lineItems[k].serviceType : k \in 1..Len(p.lineItems)}
      found == {s \in ServiceTypeRows : s.id \in ids /\ s.tenant_id = t}
  IN Cardinality(found) = Cardinality(ids)

InvoiceNumberTaken(t, number, except_id) ==
  \E i \in invoices :
    i.tenant_id = t /\ i.id # except_id /\ i.invoice_number = number

InvoiceNumberFor(t, p) ==
  IF p.invoiceNumber # NoNumber THEN p.invoiceNumber
  ELSE FormatNumber("INV", Year(p.invoiceDate),
                    Cardinality({i \in invoices : i.tenant_id = t}) + 1)

LineItemRows(p) ==
  [k \in 1..Len(p.lineItems) |->
     LET li == p.lineItems[k]
         am == calculate_line_item_amounts(li)
     IN [service_type_id |-> li.serviceType, quantity |-> li.quantity,
         rate |-> li.rate, tax_rate |-> li.taxRate, amount |-> am.amount,
         tax_amount |-> am.tax_amount, total |-> am.total]]

InvoiceRow(id, t, number, p) ==
  LET rows == LineItemRows(p)
      subtotal == SeqSum([k \in 1..Len(rows) |-> rows[k].amount])
      tax_total == SeqSum([k \in 1..Len(rows) |-> rows[k].tax_amount])
  IN [id |-> id, tenant_id |-> t, invoice_number |-> number,
      invoice_date |-> p.invoiceDate, customer_id |-> p.customerId,
      due_date |-> p.dueDate, subtotal |-> subtotal, tax_total |-> tax_total,
      total |-> subtotal + tax_total, status |-> "draft",
      line_items |-> rows, updated_at |-> 0]

\* the outcome of the checks that precede the insert
InvoiceOutcome(t, p) ==
  IF ~InvoiceSchemaOk(p) THEN [code |-> 422, detail |-> "validation"]
  ELSE IF ~CustomerInTenant(p.customerId, t)
    THEN [code |-> 400, detail |-> "invalid_customer"]
  ELSE IF ~ServiceTypesOk(t, p)
    THEN [code |-> 400, detail |-> "invalid_service_type"]
  ELSE IF p.invoiceNumber # NoNumber /\ InvoiceNumberTaken(t, p.invoiceNumber, 0)
    THEN [code |-> 409, detail |-> "number_exists"]
  ELSE [code |-> 201, detail |-> ""]

create_invoice(t, p) ==
  LET o == InvoiceOutcome(t, p)
      row == InvoiceRow(invoice_seq + 1, t, InvoiceNumberFor(t, p), p)
  IN /\ Idle
     /\ o.code = 201 => invoice_seq < MaxInvoices
     /\ IF o.code = 201
        THEN /\ invoices' = invoices \cup {row}
             /\ invoice_seq' = invoice_seq + 1
             /\ resp' = Response("create_invoice", 201, "", row.id,
                                 IF 0 >= row.total THEN "Paid"
                                 ELSE IF row.due_date < today THEN "Overdue"
                                 ELSE "Pending")
        ELSE /\ UNCHANGED <<invoices, invoice_seq>>
             /\ resp' = Response("create_invoice", o.code, o.detail, 0, "")
     /\ hist' = NoFacts
     /\ UNCHANGED <<customers, sessions, receipts, allocations, credit_notes, today, inflight>>

----------------------------------------------------------------------------
(* POST /receipts *)

\* a slip of ReceiptSchemaOk: the allocation list and its amounts are not
\* validated
ReceiptSchemaOk_AnyAllocations(p) ==
  /\ p.receiptDate <= today
  /\ p.amountReceived >= MinReceived

ReceiptSchemaOk(p) ==
  /\ p.receiptDate <= today
  /\ p.amountReceived >= MinReceived
  /\ Len(p.allocations) >= 1
  /\ \A k \in 1..Len(p.allocations) :
       p.allocations[k].amountAllocated >= MinAllocated

RequestedInvoiceIds(p) == {p.allocations[k].invoiceId : k \in 1..Len(p.allocations)}

\* a slip of FoundInvoices: the customer filter is missing
FoundInvoices_AnyCustomer(t, p) ==
  {i \in invoices : i.id \in RequestedInvoiceIds(p) /\ i.tenant_id = t}

\* the invoices of the request that exist for this customer and tenant
FoundInvoices(t, p) ==
  {i \in invoices : /\ i.id \in RequestedInvoiceIds(p)
                    /\ i.customer_id = p.customerId
                    /\ i.tenant_id = t}

\* what is left to pay on an invoice, at request scale (mills)
Outstanding(invoice) == ToFloat(invoice.total) - ToFloat(SumAllocated(invoice.id))

\* a slip of CheckAllocation: the fully-paid check is missing
CheckAllocation_NoPaidCheck(alloc) ==
  LET outstanding == Outstanding(InvoiceById(alloc.invoiceId))
  IN IF alloc.amountAllocated > outstanding THEN "exceeds_outstanding" ELSE "ok"

\* a slip of CheckAllocation: >= for >, an exact settlement is refused
CheckAllocation_RejectsEqual(alloc) ==
  LET outstanding == Outstanding(InvoiceById(alloc.invoiceId))
  IN IF outstanding <= 0 THEN "fully_paid"
     ELSE IF alloc.amountAllocated >= outstanding THEN "exceeds_outstanding"
     ELSE "ok"

\* the checks of one allocation against the invoice's outstanding amount
CheckAllocation(alloc) ==
  LET outstanding == Outstanding(InvoiceById(alloc.invoiceId))
  IN IF outstanding <= 0 THEN "fully_paid"
     ELSE IF alloc.amountAllocated > outstanding THEN "exceeds_outstanding"
     ELSE "ok"

\* the validation loop: the allocations in the order of the request, every one
\* against the allocations that exist in the store
RECURSIVE ValidateAllocations(_, _)
ValidateAllocations(allocs, total_allocated) ==
  IF allocs = <<>> THEN [code |-> 0, detail |-> "", total |-> total_allocated]
  ELSE LET c == CheckAllocation(Head(allocs))
       IN IF c # "ok" THEN [code |-> 400, detail |-> c, total |-> total_allocated]
          ELSE ValidateAllocations(Tail(allocs),
                                   total_allocated + Head(allocs).amountAllocated)

ReceiptNumberTaken(t, number) ==
  \E r \in receipts : r.tenant_id = t /\ r.receipt_number = number

\* a slip of ReceiptNumberFor: the count is not narrowed to the tenant
ReceiptNumberFor_AllTenants(t, p) ==
  IF p.receiptId # NoNumber THEN p.receiptId
  ELSE FormatNumber("RCT", Year(p.receiptDate), Cardinality(receipts) + 1)

ReceiptNumberFor(t, p) ==
  IF p.receiptId # NoNumber THEN p.receiptId
  ELSE FormatNumber("RCT", Year(p.receiptDate),
                    Cardinality({r \in receipts : r.tenant_id = t}) + 1)

\* the outcome of the checks that precede the inserts
ReceiptOutcome(t, p) ==
  IF ~ReceiptSchemaOk(p) THEN [code |-> 422, detail |-> "validation"]
  ELSE IF ~CustomerInTenant(p.customerId, t)
    THEN [code |-> 400, detail |-> "invalid_customer"]
  ELSE IF Cardinality(FoundInvoices(t, p)) # Cardinality(RequestedInvoiceIds(p))
    THEN [code |-> 400, detail |-> "invoice_not_found"]
  ELSE LET v == ValidateAllocations(p.allocations, 0)
       IN IF v.code # 0 THEN [code |-> v.code, detail |-> v.detail]
          ELSE IF v.total > p.amountReceived
            THEN [code |-> 400, detail |-> "exceeds_amount_received"]
          ELSE IF p.receiptId # NoNumber /\ ReceiptNumberTaken(t, p.receiptId)
            THEN [code |-> 409, detail |-> "number_exists"]
          ELSE [code |-> 201, detail |-> ""]

ReceiptRow(id, t, number, p) ==
  [id |-> id, tenant_id |-> t, receipt_number |-> number,
   receipt_date |-> p.receiptDate, customer_id |-> p.customerId,
   amount |-> ToNumeric2(p.amountReceived), status |-> "Completed"]

AllocationRows(receipt_id, t, p) ==
  {[id |-> <<receipt_id, k>>, tenant_id |-> t, receipt_id |-> receipt_id,
    invoice_id |-> p.allocations[k].invoiceId,
    allocated_amount |-> ToNumeric2(p.allocations[k].amountAllocated)]
   : k \in 1..Len(p.allocations)}

\* db.add(receipt), db.add(allocation) for each entry, invoice.updated_at, commit
CommitReceipt(t, number, p) ==
  LET id == Cardinality(receipts) + 1
  IN /\ receipts' = receipts \cup {ReceiptRow(id, t, number, p)}
     /\ allocations' = allocations \cup AllocationRows(id, t, p)
     /\ invoices' = {IF i.id \in RequestedInvoiceIds(p)
                       THEN [i EXCEPT !.updated_at = @ + 1] ELSE i : i \in invoices}

(* What the last createReceipt request was, judged on the store it met:
   recorded for the properties, read by no handler. *)
ExistingTargets(p) ==
  {k \in 1..Len(p.allocations) : \E i \in invoices : i.id = p.allocations[k].invoiceId}

ReceiptFacts(t, p) ==
  LET bad_customer == ~CustomerInTenant(p.customerId, t)
      bad_invoice ==
        \E k \in 1..Len(p.allocations) :
          ~\E i \in invoices : /\ i.id = p.allocations[k].invoiceId
                               /\ i.customer_id = p.customerId
                               /\ i.tenant_id = t
      paid_target ==
        \E k \in ExistingTargets(p) :
          Outstanding(InvoiceById(p.allocations[k].invoiceId)) <= 0
      over_outstanding ==
        \E k \in ExistingTargets(p) :
          LET out == Outstanding(InvoiceById(p.allocations[k].invoiceId))
          IN out > 0 /\ p.allocations[k].amountAllocated > out
      over_received ==
        SeqSum([k \in 1..Len(p.allocations) |-> p.allocations[k].amountAllocated])
          > p.amountReceived
      dup_number == p.receiptId # NoNumber /\ ReceiptNumberTaken(t, p.receiptId)
      exact ==
        {p.allocations[k].invoiceId : k \in
           {j \in ExistingTargets(p) :
              LET out == Outstanding(InvoiceById(p.allocations[j].invoiceId))
              IN out > 0 /\ p.allocations[j].amountAllocated = out}}
  IN [bad_customer |-> bad_customer, bad_invoice |-> bad_invoice,
      paid_target |-> paid_target, over_outstanding |-> over_outstanding,
      over_received |-> over_received, dup_number |-> dup_number,
      over_credit |-> FALSE, exact |-> exact,
      valid |-> /\ ReceiptSchemaOk(p)
                /\ ~bad_customer /\ ~bad_invoice /\ ~paid_target
                /\ ~over_outstanding /\ ~over_received /\ ~dup_number]

\* a slip of create_receipt: the rows are committed before the total of the
\* allocations is compared with the amount received
create_receipt_CommitsEarly(t, p) ==
  LET o == ReceiptOutcome(t, p)
      written == o.code = 201 \/ o.detail = "exceeds_amount_received"
  IN /\ Idle
     /\ written => Cardinality(receipts) < MaxReceipts
     /\ IF written
        THEN CommitReceipt(t, ReceiptNumberFor(t, p), p)
        ELSE UNCHANGED <<invoices, receipts, allocations>>
     /\ resp' = IF o.code = 201
                THEN Response("create_receipt", 201, "",
                              Cardinality(receipts) + 1, "Completed")
                ELSE Response("create_receipt", o.code, o.detail, 0, "")
     /\ hist' = ReceiptFacts(t, p)
     /\ UNCHANGED <<customers, sessions, credit_notes, invoice_seq, today, inflight>>

create_receipt(t, p) ==
  LET o == ReceiptOutcome(t, p)
  IN /\ Idle
     /\ o.code = 201 => Cardinality(receipts) < MaxReceipts
     /\ IF o.code = 201
        THEN /\ CommitReceipt(t, ReceiptNumberFor(t, p), p)
             /\ resp' = Response("create_receipt", 201, "",
                                 Cardinality(receipts) + 1, "Completed")
        ELSE /\ UNCHANGED <<invoices, receipts, allocations>>
             /\ resp' = Response("create_receipt", o.code, o.detail, 0, "")
     /\ hist' = ReceiptFacts(t, p)
     /\ UNCHANGED <<customers, sessions, credit_notes, invoice_seq, today, inflight>>

----------------------------------------------------------------------------
(* GET /invoices/{id} *)

get_invoice(t, id) ==
  /\ Idle
  /\ IF \E i \in invoices : i.id = id /\ i.tenant_id = t
     THEN resp' = Response("get_invoice", 200, "", id,
                           calculate_invoice_status(InvoiceById(id)))
     ELSE resp' = Response("get_invoice", 404, "not_found", id, "")
  /\ hist' = NoFacts
  /\ UNCHANGED <<store, today, inflight>>

----------------------------------------------------------------------------
(* PUT /invoices/{id} *)

\* the mapped attributes of class ReceiptAllocation
ReceiptAllocationColumns ==
  {"id", "tenant_id", "receipt_id", "invoice_id", "allocated_amount",
   "created_at", "updated_at"}

\* the checks of the handler from the paid check on
UpdateOutcome(t, id, p) ==
  LET invoice == InvoiceById(id)
  IN IF "amount" \notin ReceiptAllocationColumns
       \* func.sum(ReceiptAllocation.amount): the class has no such attribute
       THEN [code |-> 500, detail |-> "AttributeError"]
     ELSE IF SumAllocated(id) >= invoice.total
       THEN [code |-> 403, detail |-> "paid"]
     ELSE IF AllocationsOf(id) # {}
       THEN [code |-> 403, detail |-> "has_receipts"]
     ELSE IF ~CustomerInTenant(p.customerId, t)
       THEN [code |-> 400, detail |-> "invalid_customer"]
     ELSE IF ~ServiceTypesOk(t, p)
       THEN [code |-> 400, detail |-> "invalid_service_type"]
     ELSE IF /\ p.invoiceNumber # NoNumber
             /\ p.invoiceNumber # invoice.invoice_number
             /\ InvoiceNumberTaken(t, p.invoiceNumber, id)
       THEN [code |-> 409, detail |-> "number_exists"]
     ELSE [code |-> 200, detail |-> ""]

update_invoice(t, id, p) ==
  /\ Idle
  /\ IF ~InvoiceSchemaOk(p)
     THEN /\ resp' = Response("update_invoice", 422, "validation", id, "")
          /\ UNCHANGED invoices
     ELSE IF ~\E i \in invoices : i.id = id /\ i.tenant_id = t
     THEN /\ resp' = Response("update_invoice", 404, "not_found", id, "")
          /\ UNCHANGED invoices
     ELSE LET o == UpdateOutcome(t, id, p)
              old == InvoiceById(id)
              number == IF p.invoiceNumber # NoNumber THEN p.invoiceNumber
                        ELSE old.invoice_number
              new == [InvoiceRow(id, t, number, p) EXCEPT
                        !.status = old.status,
                        !.updated_at = old.updated_at + 1]
          IN IF o.code = 200
             THEN /\ invoices' = (invoices \ {old}) \cup {new}
                  /\ resp' = Response("update_invoice", 200, "", id,
                                      IF SumAllocated(id) >= new.total THEN "Paid"
                                      ELSE IF new.due_date < today THEN "Overdue"
                                      ELSE "Pending")
             ELSE /\ resp' = Response("update_invoice", o.code, o.detail, id, "")
                  /\ UNCHANGED invoices
  /\ hist' = NoFacts
  /\ UNCHANGED <<customers, sessions, receipts, allocations, credit_notes, invoice_seq,
                 today, inflight>>

----------------------------------------------------------------------------
(* DELETE /invoices/{id} *)

\* a slip of delete_invoice: the allocations are not looked at
delete_invoice_NoReceiptCheck(t, id) ==
  /\ Idle
  /\ IF ~\E i \in invoices : i.id = id /\ i.tenant_id = t
     THEN /\ resp' = Response("delete_invoice", 404, "not_found", id, "")
          /\ UNCHANGED invoices
     ELSE IF {c \in credit_notes : c.invoice_id = id} # {}
     THEN /\ resp' = Response("delete_invoice", 403, "has_credit_notes", id, "")
          /\ UNCHANGED invoices
     ELSE /\ invoices' = invoices \ {InvoiceById(id)}
          /\ resp' = Response("delete_invoice", 200, "", id, "")
  /\ hist' = NoFacts
  /\ UNCHANGED <<customers, sessions, receipts, allocations, credit_notes, invoice_seq,
                 today, inflight>>

delete_invoice(t, id) ==
  /\ Idle
  /\ IF ~\E i \in invoices : i.id = id /\ i.tenant_id = t
     THEN /\ resp' = Response("delete_invoice", 404, "not_found", id, "")
          /\ UNCHANGED invoices
     ELSE IF AllocationsOf(id) # {}
     THEN /\ resp' = Response("delete_invoice", 403, "has_receipts", id, "")
          /\ UNCHANGED invoices
     ELSE IF {c \in credit_notes : c.invoice_id = id} # {}
     THEN /\ resp' = Response("delete_invoice", 403, "has_credit_notes", id, "")
          /\ UNCHANGED invoices
     ELSE /\ invoices' = invoices \ {InvoiceById(id)}
          /\ resp' = Response("delete_invoice", 200, "", id, "")
  /\ hist' = NoFacts
  /\ UNCHANGED <<customers, sessions, receipts, allocations, credit_notes, invoice_seq,
                 today, inflight>>

----------------------------------------------------------------------------
(* GET /invoices?status= *)

StatusFilters == {"Paid", "Pending", "Overdue"}

\* the ids the grouped subquery selects: invoices whose allocations sum to
\* their total or more
paid_invoice_ids ==
  {id \in {a.invoice_id : a \in allocations} :
     \E i \in invoices : i.id = id /\ SumAllocated(id) >= i.total}

\* the rows the status filter keeps
StatusFilter(i, status) ==
  CASE status = "Paid" -> i.id \in paid_invoice_ids
    [] status = "Overdue" -> i.id \notin paid_invoice_ids /\ i.due_date < today
    [] status = "Pending" -> i.id \notin paid_invoice_ids /\ i.due_date >= today

list_invoices(t, status) ==
  /\ Idle
  /\ resp' =
       IF "amount" \notin ReceiptAllocationColumns
         \* func.sum(ReceiptAllocation.amount): the class has no such attribute
         THEN Response("list_invoices", 500, "AttributeError", 0, status)
       ELSE [Response("list_invoices", 200, "", 0, status) EXCEPT
               !.rows = {i.id : i \in {j \in invoices :
                                         j.tenant_id = t /\ StatusFilter(j, status)}}]
  /\ hist' = NoFacts
  /\ UNCHANGED <<store, today, inflight>>

----------------------------------------------------------------------------
(* POST /credit-notes *)

\* the mapped attributes of class CreditNote
CreditNoteColumns ==
  {"id", "tenant_id", "credit_note_number", "credit_note_date", "customer_id",
   "invoice_id", "reason", "amount", "gst_amount", "total_credit", "status",
   "notes", "created_by", "created_at", "updated_at"}

\* a slip of CreditNoteKwargs: only mapped attributes are passed
CreditNoteKwargs_Mapped ==
  {"id", "tenant_id", "credit_note_number", "credit_note_date", "customer_id",
   "invoice_id", "reason", "amount", "gst_amount", "total_credit",
   "status", "notes", "created_by", "created_at", "updated_at"}

\* the keyword arguments of the CreditNote(...) call of the handler
CreditNoteKwargs ==
  {"id", "tenant_id", "credit_note_number", "credit_note_date", "customer_id",
   "invoice_id", "reason", "amount", "gst_rate", "gst_amount", "total_credit",
   "status", "notes", "created_by", "created_at", "updated_at"}

\* the absent invoiceId of a credit note request
NoInvoice == 0

CreditSchemaOk(p) ==
  /\ p.amount >= MinCreditAmount
  /\ p.gstRate >= 0
  /\ p.gstRate <= MaxPercent

\* Decimal arithmetic on a request amount (mills) and a rate (percent):
\* amount + amount * rate / 100, exact, in 1/100000
TotalCreditExact(p) == p.amount * 100 + p.amount * p.gstRate

\* total_credit as the DECIMAL(15,2) column keeps it, in cents
TotalCreditStored(p) == (TotalCreditExact(p) + 500) \div 1000

\* existing_credits + total_credit > Decimal(str(invoice.total))
ExceedsInvoiceTotal(invoice, p) ==
  SumCredits(invoice.id) * 1000 + TotalCreditExact(p) > invoice.total * 1000

CreditNoteNumberTaken(t, number) ==
  \E c \in credit_notes : c.tenant_id = t /\ c.credit_note_number = number

CreditNoteNumberFor(t, p) ==
  IF p.creditNoteId # NoNumber THEN p.creditNoteId
  ELSE FormatNumber("CN", Year(p.creditNoteDate),
                    Cardinality({c \in credit_notes : c.tenant_id = t}) + 1)

CreditInvoiceFound(t, p) ==
  \E i \in invoices : /\ i.id = p.invoiceId
                      /\ i.customer_id = p.customerId
                      /\ i.tenant_id = t

\* a slip of CreditOutcome: neither the cap nor the keyword arguments stop a row
CreditOutcome_Unchecked(t, p) ==
  IF ~CreditSchemaOk(p) THEN [code |-> 422, detail |-> "validation"]
  ELSE IF ~CustomerInTenant(p.customerId, t)
    THEN [code |-> 400, detail |-> "invalid_customer"]
  ELSE IF p.invoiceId # NoInvoice /\ ~CreditInvoiceFound(t, p)
    THEN [code |-> 400, detail |-> "invalid_invoice"]
  ELSE [code |-> 201, detail |-> ""]

\* the outcome of the handler up to the construction of the row
CreditOutcome(t, p) ==
  IF ~CreditSchemaOk(p) THEN [code |-> 422, detail |-> "validation"]
  ELSE IF ~CustomerInTenant(p.customerId, t)
    THEN [code |-> 400, detail |-> "invalid_customer"]
  ELSE IF p.invoiceId # NoInvoice /\ ~CreditInvoiceFound(t, p)
    THEN [code |-> 400, detail |-> "invalid_invoice"]
  ELSE IF p.invoiceId # NoInvoice /\ ExceedsInvoiceTotal(InvoiceById(p.invoiceId), p)
    THEN [code |-> 400, detail |-> "exceeds_invoice_total"]
  ELSE IF p.creditNoteId # NoNumber /\ CreditNoteNumberTaken(t, p.creditNoteId)
    THEN [code |-> 409, detail |-> "number_exists"]
  ELSE IF ~(CreditNoteKwargs \subseteq CreditNoteColumns)
    \* CreditNote(gst_rate=...): an invalid keyword argument for CreditNote
    THEN [code |-> 500, detail |-> "TypeError"]
  ELSE [code |-> 201, detail |-> ""]

CreditNoteRow(id, t, number, p) ==
  [id |-> id, tenant_id |-> t, credit_note_number |-> number,
   credit_note_date |-> p.creditNoteDate, customer_id |-> p.customerId,
   invoice_id |-> p.invoiceId, amount |-> ToNumeric2(p.amount),
   total_credit |-> TotalCreditStored(p), status |-> "Issued"]

(* What the last createCreditNote request was, judged on the store it met:
   recorded for the properties, read by no handler.  over_credit compares
   total_credit as the row would hold it (amount plus GST, two decimals). *)
CreditFacts(t, p) ==
  LET bad_customer == ~CustomerInTenant(p.customerId, t)
      bad_invoice == p.invoiceId # NoInvoice /\ ~CreditInvoiceFound(t, p)
      over_credit ==
        /\ p.invoiceId # NoInvoice
        /\ \E i \in invoices :
             i.id = p.invoiceId /\ SumCredits(i.id) + TotalCreditStored(p) > i.total
      dup_number == p.creditNoteId # NoNumber /\ CreditNoteNumberTaken(t, p.creditNoteId)
  IN [NoFacts EXCEPT
        !.bad_customer = bad_customer, !.bad_invoice = bad_invoice,
        !.over_credit = over_credit, !.dup_number = dup_number,
        !.exact = IF p.invoiceId # NoInvoice /\ ~bad_invoice /\ ~bad_customer
                     /\ SumCredits(p.invoiceId) + TotalCreditStored(p)
                          = InvoiceById(p.invoiceId).total
                  THEN {p.invoiceId} ELSE {},
        !.valid = /\ CreditSchemaOk(p) /\ ~bad_customer /\ ~bad_invoice
                  /\ ~over_credit /\ ~dup_number]

\* a slip of create_credit_note: the row is stored past the checks and the
\* credited amount is taken off the invoice's total
create_credit_note_LowersTotal(t, p) ==
  LET o == CreditOutcome(t, p)
      id == Cardinality(credit_notes) + 1
      issued == o.code = 201 \/ o.detail = "TypeError"
  IN /\ Idle
     /\ IF issued
        THEN /\ credit_notes' =
                  credit_notes \cup {CreditNoteRow(id, t, CreditNoteNumberFor(t, p), p)}
             /\ invoices' =
                  {IF i.id = p.invoiceId
                   THEN [i EXCEPT !.total = i.total - TotalCreditStored(p)]
                   ELSE i : i \in invoices}
             /\ resp' = Response("create_credit_note", 201, "", id, "Issued")
        ELSE /\ UNCHANGED <<credit_notes, invoices>>
             /\ resp' = Response("create_credit_note", o.code, o.detail, 0, "")
     /\ hist' = CreditFacts(t, p)
     /\ UNCHANGED <<customers, sessions, receipts, allocations, invoice_seq,
                    today, inflight>>

create_credit_note(t, p) ==
  LET o == CreditOutcome(t, p)
      id == Cardinality(credit_notes) + 1
  IN /\ Idle
     /\ IF o.code = 201
        THEN /\ credit_notes' =
                  credit_notes \cup {CreditNoteRow(id, t, CreditNoteNumberFor(t, p), p)}
             /\ resp' = Response("create_credit_note", 201, "", id, "Issued")
        ELSE /\ UNCHANGED credit_notes
             /\ resp' = Response("create_credit_note", o.code, o.detail, 0, "")
     /\ hist' = CreditFacts(t, p)
     /\ UNCHANGED <<customers, sessions, invoices, receipts, allocations, invoice_seq,
                    today, inflight>>

----------------------------------------------------------------------------
(* The clock *)

Tick ==
  /\ Idle
  /\ today < MaxDay
  /\ today' = today + 1
  /\ UNCHANGED <<store, inflight, resp, hist>>

(* The client takes the response *)

Return ==
  /\ ~Idle
  /\ resp' = NoResponse
  /\ hist' = NoFacts
  /\ UNCHANGED <<store, today, inflight>>

----------------------------------------------------------------------------
(* The requests of the model *)

\* callers and the customer they name: own customers, and one of another tenant
Callers == {<<"T1", "c1">>, <<"T1", "c2">>, <<"T1", "c3">>, <<"T2", "c3">>}

\* one line of 1.00 x 1.00 at 2 percent: an invoice of 1.02
LineItemInputs ==
  {[serviceType |-> s, quantity |-> 100, rate |-> 100, taxRate |-> 2] : s \in {"s1", "s2"}}

InvoiceRequests(dates) ==
  {[customerId |-> c, invoiceNumber |-> NoNumber, invoiceDate |-> d, dueDate |-> d,
    lineItems |-> <<li>>] : c \in CustomerIds, d \in dates, li \in LineItemInputs}

\* request amounts in mills: 0.505 and 1.02
AllocationAmounts == {505, 1020}
ReceivedAmounts == {1010, 2040}
ExplicitReceiptNumber == <<"RCT", 0, 2>>

AllocationInputs ==
  {[invoiceId |-> i, amountAllocated |-> a] : i \in InvoiceIds, a \in AllocationAmounts}

SingleAllocations == {<<a>> : a \in AllocationInputs}

AllocationLists ==
  SingleAllocations \cup {<<a, b>> : a \in AllocationInputs, b \in AllocationInputs}

ReceiptRequests ==
  {[customerId |-> c, receiptId |-> NoNumber, receiptDate |-> 0,
    amountReceived |-> r, allocations |-> al]
     : c \in CustomerIds, r \in ReceivedAmounts, al \in AllocationLists}
  \cup
  {[customerId |-> "c1", receiptId |-> ExplicitReceiptNumber, receiptDate |-> 0,
    amountReceived |-> 2040, allocations |-> al] : al \in SingleAllocations}

----------------------------------------------------------------------------
(* Spec: invoices are created and deleted and receipts are recorded, one
   request at a time *)

Next ==
  \/ \E c \in Callers, p \in InvoiceRequests({0}) :
       p.customerId = c[2] /\ create_invoice(c[1], p)
  \/ \E c \in Callers, p \in ReceiptRequests :
       p.customerId = c[2] /\ create_receipt(c[1], p)
  \/ \E t \in Tenants, id \in InvoiceIds : delete_invoice(t, id)
  \/ Return

Spec == Init /\ [][Next]_vars

----------------------------------------------------------------------------
(* Properties of Spec *)

\* C1: for every invoice, the sum of allocated_amount over the allocations that
\* reference it is at most the invoice's total
C1_AllocationsWithinTotal ==
  \A i \in invoices : SumAllocated(i.id) <= i.total

\* C3: for every receipt, the sum of allocated_amount over its allocations is at
\* most the receipt's amount, and a request whose allocation amounts sum to more
\* than amountReceived is rejected
C3_ReceiptNotOverApplied ==
  /\ \A r \in receipts : SumOfReceipt(r.id) <= r.amount
  /\ (resp.op = "create_receipt" /\ hist.over_received) => resp.code = 400

\* C6: a createReceipt request that is not accepted leaves every row of the
\* store as it was, the invoices' updated_at included
C6_FailureChangesNothing ==
  [][(resp'.op = "create_receipt" /\ resp'.code # 201) => UNCHANGED store]_vars

C6_Witness ==
  /\ resp.op = "create_receipt"
  /\ resp.detail = "exceeds_amount_received"
  /\ hist.over_received /\ ~hist.over_outstanding /\ ~hist.paid_target
  /\ allocations # {}

AllocationLinked(a) ==
  \E r \in receipts, i \in invoices :
    /\ r.id = a.receipt_id /\ i.id = a.invoice_id
    /\ r.customer_id = i.customer_id
    /\ r.tenant_id = i.tenant_id /\ a.tenant_id = i.tenant_id

C9_InvoiceReferenceChecked ==
  /\ [](\A a \in allocations : AllocationLinked(a))
  /\ [][(resp'.op = "create_receipt" /\ hist'.bad_invoice)
          => (resp'.code = 400 /\ UNCHANGED store)]_vars

C9_Witness ==
  /\ resp.op = "create_receipt" /\ resp.detail = "invoice_not_found"
  /\ hist.bad_invoice /\ ~hist.bad_customer
  /\ allocations # {}
  /\ Cardinality({i.customer_id : i \in invoices}) = 2

----------------------------------------------------------------------------
(* SpecStatus: invoices with due dates, receipts, the clock, and reads of
   single invoices *)

StatusReceiptRequests ==
  {[customerId |-> c, receiptId |-> NoNumber, receiptDate |-> 0,
    amountReceived |-> 2040, allocations |-> al] :
     c \in {"c1", "c3"}, al \in SingleAllocations}

NextStatus ==
  \/ \E c \in Callers, p \in InvoiceRequests(Dates) :
       p.customerId = c[2] /\ create_invoice(c[1], p)
  \/ \E c \in Callers, p \in StatusReceiptRequests :
       p.customerId = c[2] /\ create_receipt(c[1], p)
  \/ \E t \in Tenants, id \in InvoiceIds : get_invoice(t, id)
  \/ \E t \in Tenants, status \in StatusFilters : list_invoices(t, status)
  \/ Tick
  \/ Return

SpecStatus == Init /\ [][NextStatus]_vars

\* C5: the status returned for an invoice is Paid when the sum of its
\* allocations is at least its total, also when its due date has passed;
\* otherwise Overdue when the due date is before today; otherwise Pending
C5_StatusResolution ==
  (resp.op = "get_invoice" /\ resp.code = 200) =>
    LET i == InvoiceById(resp.id)
        settled == SumAllocated(i.id) >= i.total
    IN /\ settled => resp.status = "Paid"
       /\ (~settled /\ i.due_date < today) => resp.status = "Overdue"
       /\ (~settled /\ i.due_date >= today) => resp.status = "Pending"

\* a settled invoice whose due date has passed is read as Paid
C5_Witness ==
  /\ resp.op = "get_invoice" /\ resp.code = 200 /\ resp.status = "Paid"
  /\ InvoiceById(resp.id).due_date < today
  /\ SumAllocated(resp.id) >= InvoiceById(resp.id).total
  /\ InvoiceById(resp.id).total > 0

----------------------------------------------------------------------------
(* SpecCredit: invoices are created, edited and deleted and credit notes are
   requested against them *)

\* request amounts in mills and rates in percent against invoices of 1.02:
\* 1.00 at 2 percent is 1.02; 1.01 at 1 percent is 1.0201, kept as 1.02;
\* 2.00 is above the invoice; 0.50 fails the schema
CreditAmounts == {500, 1000, 1010, 2000}
CreditRates == {1, 2}
ExplicitCreditNumber == <<"CN", 0, 1>>

CreditRequests ==
  {[customerId |-> c, invoiceId |-> i, creditNoteId |-> n, creditNoteDate |-> 0,
    amount |-> a, gstRate |-> g] :
     c \in {"c1", "c3"}, i \in InvoiceIds \cup {NoInvoice},
     n \in {NoNumber, ExplicitCreditNumber}, a \in CreditAmounts, g \in CreditRates}

UpdateRequests ==
  {[customerId |-> "c1", invoiceNumber |-> NoNumber, invoiceDate |-> 0, dueDate |-> 0,
    lineItems |-> <<[serviceType |-> "s1", quantity |-> q, rate |-> 100, taxRate |-> 2]>>] :
     q \in {50, 100}}

NextCredit ==
  \/ \E c \in Callers, p \in InvoiceRequests({0}) :
       p.customerId = c[2] /\ create_invoice(c[1], p)
  \/ \E t \in Tenants, id \in InvoiceIds, p \in UpdateRequests : update_invoice(t, id, p)
  \/ \E t \in Tenants, id \in InvoiceIds : delete_invoice(t, id)
  \/ \E c \in Callers, p \in CreditRequests :
       p.customerId = c[2] /\ create_credit_note(c[1], p)
  \/ \E c \in Callers, p \in StatusReceiptRequests :
       p.customerId = c[2] /\ create_receipt(c[1], p)
  \/ Return

SpecCredit == Init /\ [][NextCredit]_vars

C10_CreditCapExact ==
  (/\ resp.op = "create_credit_note"
   /\ resp.code # 422
   /\ ~hist.bad_customer /\ ~hist.bad_invoice /\ ~hist.dup_number) =>
    /\ (resp.code = 400 /\ resp.detail = "exceeds_invoice_total") <=> hist.over_credit
    /\ (hist.valid /\ hist.exact # {}) => resp.code = 201

----------------------------------------------------------------------------
(* SpecConc: two sessions run createReceipt side by side.  A session reads
   and validates in one step and inserts and commits in a later one; under
   READ COMMITTED the rows of the other session are seen once committed. *)

Workers == {1, 2}

\* cent-exact single allocations to one invoice of 1.02: 0.51 and 1.02
ConcReceiptRequests ==
  {[customerId |-> "c1", receiptId |-> NoNumber, receiptDate |-> 0,
    amountReceived |-> 2040,
    allocations |-> <<[invoiceId |-> i, amountAllocated |-> a]>>] :
     i \in InvoiceIds, a \in {510, 1020}}

\* create_receipt up to the construction of the rows
receipt_read(w, t, p) ==
  LET o == ReceiptOutcome(t, p)
  IN /\ ~\E r \in inflight : r.worker = w
     /\ Cardinality(receipts) + Cardinality(inflight) < MaxReceipts
     /\ IF o.code = 201
        THEN /\ inflight' = inflight \cup
                  {[worker |-> w, tenant |-> t, payload |-> p,
                    number |-> ReceiptNumberFor(t, p)]}
             /\ UNCHANGED <<resp, hist>>
        ELSE /\ resp' = Response("create_receipt", o.code, o.detail, 0, "")
             /\ hist' = ReceiptFacts(t, p)
             /\ UNCHANGED inflight
     /\ UNCHANGED <<store, today>>

\* create_receipt from the construction of the rows to the commit
receipt_commit(w) ==
  \E r \in inflight :
    /\ r.worker = w
    /\ CommitReceipt(r.tenant, r.number, r.payload)
    /\ inflight' = inflight \ {r}
    /\ resp' = Response("create_receipt", 201, "", Cardinality(receipts) + 1, "Completed")
    /\ hist' = NoFacts
    /\ UNCHANGED <<customers, sessions, credit_notes, invoice_seq, today>>

NextConc ==
  \/ \E p \in InvoiceRequests({0}) : p.customerId = "c1" /\ create_invoice("T1", p)
  \/ \E w \in Workers, p \in ConcReceiptRequests : receipt_read(w, "T1", p)
  \/ \E w \in Workers : receipt_commit(w)
  \/ Return

SpecConc == Init /\ [][NextConc]_vars

\* C2: two createReceipt calls that allocate to the same invoice and run side
\* by side do not both pass the outstanding check and commit allocations that
\* together with the existing ones exceed the invoice's total
C2_NoJointOverAllocation ==
  \A i \in invoices :
    Cardinality({a.receipt_id : a \in AllocationsOf(i.id)}) >= 2 =>
      SumAllocated(i.id) <= i.total

----------------------------------------------------------------------------
(* SpecEdit: invoices with chosen or generated numbers and several kinds of
   line are created, paid, edited and deleted *)

ExplicitInvoiceNumber == <<"INV", 0, 2>>

\* lines of 1.00 x 1.00 at 2 percent (1.02), of 1.01 x 0.33 at 10 percent
\* (0.3333 and 0.03333 before rounding) and of 1.00 x 0.00 (an invoice of 0.00)
EditLineItems ==
  {[serviceType |-> "s1", quantity |-> 100, rate |-> 100, taxRate |-> 2],
   [serviceType |-> "s1", quantity |-> 101, rate |-> 33, taxRate |-> 10],
   [serviceType |-> "s1", quantity |-> 100, rate |-> 0, taxRate |-> 2],
   [serviceType |-> "s2", quantity |-> 100, rate |-> 100, taxRate |-> 2]}

EditInvoiceRequests ==
  {[customerId |-> c, invoiceNumber |-> n, invoiceDate |-> 0, dueDate |-> 0,
    lineItems |-> <<li>>] :
     c \in {"c1", "c3"}, n \in {NoNumber, ExplicitInvoiceNumber}, li \in EditLineItems}

EditReceiptRequests ==
  {[customerId |-> "c1", receiptId |-> NoNumber, receiptDate |-> 0,
    amountReceived |-> 2040, allocations |-> al] : al \in SingleAllocations}

NextEdit ==
  \/ \E c \in Callers, p \in EditInvoiceRequests :
       p.customerId = c[2] /\ create_invoice(c[1], p)
  \/ \E p \in EditReceiptRequests : create_receipt("T1", p)
  \/ \E t \in Tenants, id \in InvoiceIds, p \in UpdateRequests : update_invoice(t, id, p)
  \/ \E t \in Tenants, id \in InvoiceIds : delete_invoice(t, id)
  \/ Return

SpecEdit == Init /\ [][NextEdit]_vars

\* the invoice is referenced by an allocation or by a credit note
Referenced(id) ==
  AllocationsOf(id) # {} \/ {c \in credit_notes : c.invoice_id = id} # {}

\* C11: a PUT on an invoice of the caller that an allocation or a credit note
\* references is answered 403
C11_EditGuard ==
  (/\ resp.op = "update_invoice"
   /\ resp.code \notin {404, 422}
   /\ Referenced(resp.id)) => resp.code = 403

\* C12: a DELETE on an invoice of the caller that an allocation or a credit
\* note references is answered 403 and changes nothing, and an invoice leaves
\* the store only when nothing references it
C12_DeleteGuard ==
  [][/\ (resp'.op = "delete_invoice" /\ resp'.code # 404 /\ Referenced(resp'.id))
          => (resp'.code = 403 /\ UNCHANGED store)
     /\ \A i \in invoices :
          (~\E j \in invoices' : j.id = i.id) => ~Referenced(i.id)]_vars

\* a DELETE on an invoice with an allocation has been refused
C12_Witness ==
  /\ resp.op = "delete_invoice" /\ resp.code = 403
  /\ AllocationsOf(resp.id) # {}
  /\ \E i \in invoices : i.id = resp.id

----------------------------------------------------------------------------
(* Properties of SpecStatus: lists *)

\* C13: GET /invoices?status=S returns exactly the invoices of the caller's
\* tenant for which the resolver of GET /invoices/{id} gives S
C13_ListMatchesResolver ==
  resp.op = "list_invoices" =>
    /\ resp.code = 200
    /\ \E t \in Tenants :
         resp.rows = {i.id : i \in {j \in invoices :
                        j.tenant_id = t /\ calculate_invoice_status(j) = resp.status}}

----------------------------------------------------------------------------
(* Properties of Spec: numbers *)

\* C14: no two receipts of one tenant have the same receipt_number
C14_ReceiptNumbersUnique ==
  \A r1 \in receipts, r2 \in receipts :
    (r1.tenant_id = r2.tenant_id /\ r1.receipt_number = r2.receipt_number)
      => r1.id = r2.id

----------------------------------------------------------------------------
(* Properties of SpecEdit: numbers, amounts, first status *)

\* C15: no two invoices of one tenant have the same invoice_number
C15_InvoiceNumbersUnique ==
  \A i1 \in invoices, i2 \in invoices :
    (i1.tenant_id = i2.tenant_id /\ i1.invoice_number = i2.invoice_number)
      => i1.id = i2.id

\* C17: every stored line has amount = round(quantity x rate, 2), tax_amount
\* = round(amount x tax rate / 100, 2) and total = amount + tax_amount, and
\* every invoice has total = subtotal + tax_total = the sum of its lines' totals
C17_LineAndInvoiceTotals ==
  \A i \in invoices :
    /\ \A k \in 1..Len(i.line_items) :
         LET li == i.line_items[k]
         IN /\ li.amount = RoundHalfEven(li.quantity * li.rate, 100)
            /\ li.tax_amount = RoundHalfEven(li.amount * li.tax_rate, 100)
            /\ li.total = li.amount + li.tax_amount
    /\ i.total = i.subtotal + i.tax_total
    /\ i.total = SeqSum([k \in 1..Len(i.line_items) |-> i.line_items[k].total])

\* C18: an invoice accepted by POST /invoices is returned with status Pending
C18_CreatedPending ==
  (resp.op = "create_invoice" /\ resp.code = 201) => resp.status = "Pending"

----------------------------------------------------------------------------
(* SpecNumber: receipts without a number of their own, dated in more than
   one year *)

NumberReceiptRequests ==
  {[customerId |-> c, receiptId |-> NoNumber, receiptDate |-> d,
    amountReceived |-> 1010,
    allocations |-> <<[invoiceId |-> i, amountAllocated |-> 510]>>] :
     c \in {"c1", "c3"}, d \in Dates, i \in InvoiceIds}

NextNumber ==
  \/ \E c \in Callers, p \in InvoiceRequests({0}) :
       p.customerId = c[2] /\ create_invoice(c[1], p)
  \/ \E c \in Callers, p \in NumberReceiptRequests :
       p.customerId = c[2] /\ create_receipt(c[1], p)
  \/ Tick
  \/ Return

SpecNumber == Init /\ [][NextNumber]_vars

\* C16: a receipt created without a number gets RCT-{year}-{sequence}, the
\* year of its date and 1 plus the number of the tenant's other receipts
\* whose number is of that year's pattern
C16_SequencePerYear ==
  (resp.op = "create_receipt" /\ resp.code = 201) =>
    \A r \in receipts :
      r.id = resp.id =>
        LET year == Year(r.receipt_date)
            same == {o \in receipts :
                       /\ o.id # r.id /\ o.tenant_id = r.tenant_id
                       /\ o.receipt_number[1] = "RCT"
                       /\ o.receipt_number[2] = year}
        IN r.receipt_number = FormatNumber("RCT", year, Cardinality(same) + 1)

----------------------------------------------------------------------------
(* Properties of SpecCredit: settlement *)

----------------------------------------------------------------------------
(* SpecTenant: two tenants use every operation on their own data and try
   each other's customers and invoices *)

TenantReceiptRequests ==
  {[customerId |-> c, receiptId |-> n, receiptDate |-> 0,
    amountReceived |-> 2040, allocations |-> al] :
     c \in {"c1", "c3"}, n \in {NoNumber, ExplicitReceiptNumber},
     al \in {<<[invoiceId |-> i, amountAllocated |-> 510]>> : i \in InvoiceIds}}

TenantCreditRequests ==
  {[customerId |-> c, invoiceId |-> i, creditNoteId |-> NoNumber,
    creditNoteDate |-> 0, amount |-> 1000, gstRate |-> 2] :
     c \in {"c1", "c3"}, i \in InvoiceIds}

NextTenant ==
  \/ \E c \in Callers, p \in InvoiceRequests({0}) :
       p.customerId = c[2] /\ create_invoice(c[1], p)
  \/ \E c \in Callers, p \in TenantReceiptRequests :
       p.customerId = c[2] /\ create_receipt(c[1], p)
  \/ \E c \in Callers, p \in TenantCreditRequests :
       p.customerId = c[2] /\ create_credit_note(c[1], p)
  \/ \E t \in Tenants, id \in InvoiceIds : get_invoice(t, id)
  \/ \E t \in Tenants, id \in InvoiceIds : delete_invoice(t, id)
  \/ Return

SpecTenant == Init /\ [][NextTenant]_vars

\* the rows of a table that carry the tenant's identifier
Own(table, t) == {x \in table : x.tenant_id = t}

\* every row references rows of its own tenant only
RowsReferOwn ==
  /\ \A i \in invoices : \E c \in Own(customers, i.tenant_id) : c.id = i.customer_id
  /\ \A r \in receipts : \E c \in Own(customers, r.tenant_id) : c.id = r.customer_id
  /\ \A a \in allocations :
       /\ \E r \in Own(receipts, a.tenant_id) : r.id = a.receipt_id
       /\ \E i \in Own(invoices, a.tenant_id) : i.id = a.invoice_id
  /\ \A n \in credit_notes :
       /\ \E c \in Own(customers, n.tenant_id) : c.id = n.customer_id
       /\ n.invoice_id # NoInvoice =>
            \E i \in Own(invoices, n.tenant_id) : i.id = n.invoice_id

\* every lookup, count and sum a handler makes for tenant t is made of t's rows
QueriesReadOwnRows ==
  \A t \in Tenants :
    /\ \A c \in CustomerIds :
         CustomerInTenant(c, t) <=> \E x \in Own(customers, t) : x.id = c
    /\ \A i \in Own(invoices, t) :
         /\ AllocationsOf(i.id) \subseteq Own(allocations, t)
         /\ CreditNotesOf(i.id) \subseteq Own(credit_notes, t)
         /\ \A j \in invoices : j.id = i.id => j = i
    /\ \A p \in TenantReceiptRequests :
         /\ FoundInvoices(t, p) \subseteq Own(invoices, t)
         /\ ReceiptNumberTaken(t, ExplicitReceiptNumber) <=>
              \E r \in Own(receipts, t) : r.receipt_number = ExplicitReceiptNumber
         /\ ReceiptNumberFor(t, p) =
              IF p.receiptId # NoNumber THEN p.receiptId
              ELSE FormatNumber("RCT", Year(p.receiptDate),
                                Cardinality(Own(receipts, t)) + 1)
    /\ \A p \in InvoiceRequests({0}) :
         /\ ServiceTypesOk(t, p) <=>
              \A k \in 1..Len(p.lineItems) :
                \E x \in Own(ServiceTypeRows, t) : x.id = p.lineItems[k].serviceType
         /\ InvoiceNumberFor(t, p) =
              FormatNumber("INV", Year(p.invoiceDate),
                           Cardinality(Own(invoices, t)) + 1)
    /\ \A p \in TenantCreditRequests :
         /\ CreditInvoiceFound(t, p) => \E i \in Own(invoices, t) : i.id = p.invoiceId
         /\ CreditNoteNumberFor(t, p) =
              FormatNumber("CN", Year(p.creditNoteDate),
                           Cardinality(Own(credit_notes, t)) + 1)

\* the step leaves the rows of every tenant but t as they were
OthersUnchanged(t) ==
  \A u \in Tenants \ {t} :
    /\ Own(customers, u)' = Own(customers, u)
    /\ Own(invoices, u)' = Own(invoices, u)
    /\ Own(receipts, u)' = Own(receipts, u)
    /\ Own(allocations, u)' = Own(allocations, u)
    /\ Own(credit_notes, u)' = Own(credit_notes, u)

\* C20: what an operation of tenant A returns and writes is made of A's rows
\* alone: every query reads only the caller's rows, every row references rows
\* of its own tenant, a read finds an invoice only in the caller's tenant,
\* and no operation of A changes a row of another tenant
C20_TenantIsolation ==
  /\ [](RowsReferOwn /\ QueriesReadOwnRows)
  /\ [][\A c \in Callers :
          /\ (\E p \in InvoiceRequests({0}) :
                p.customerId = c[2] /\ create_invoice(c[1], p)) => OthersUnchanged(c[1])
          /\ (\E p \in TenantReceiptRequests :
                p.customerId = c[2] /\ create_receipt(c[1], p)) => OthersUnchanged(c[1])
          /\ (\E p \in TenantCreditRequests :
                p.customerId = c[2] /\ create_credit_note(c[1], p))
               => OthersUnchanged(c[1])
          /\ \A id \in InvoiceIds :
               /\ delete_invoice(c[1], id) => OthersUnchanged(c[1])
               /\ (get_invoice(c[1], id) /\ resp'.code = 200)
                    => \E i \in Own(invoices, c[1]) : i.id = id]_vars

\* both tenants hold invoices and receipts, one of them under the number the
\* other one uses, and a request naming the other tenant's invoice was refused
C20_Witness ==
  /\ \A t \in Tenants : Own(invoices, t) # {} /\ Own(allocations, t) # {}
  /\ \A t \in Tenants : \E r \in Own(receipts, t) : r.receipt_number = ExplicitReceiptNumber
  /\ resp.op = "get_invoice" /\ resp.code = 404
  /\ \E i \in invoices : i.id = resp.id

----------------------------------------------------------------------------
(* SpecConcCredit: two sessions run createCreditNote side by side.  A session
   reads and validates in one step and constructs, inserts and commits in a
   later one. *)

MaxCreditNotes == 2

\* credit notes of 0.51 and of 1.02 with GST against invoices of 1.02
ConcCreditRequests ==
  {[customerId |-> "c1", invoiceId |-> i, creditNoteId |-> NoNumber,
    creditNoteDate |-> 0, amount |-> 1000, gstRate |-> g] :
     i \in InvoiceIds, g \in {0, 2}}

\* create_credit_note up to the construction of the row
credit_read(w, t, p) ==
  LET o == CreditOutcome(t, p)
      passed == o.code = 201 \/ o.detail = "TypeError"
  IN /\ ~\E r \in inflight : r.worker = w
     /\ Cardinality(credit_notes) + Cardinality(inflight) < MaxCreditNotes
     /\ IF passed
        THEN /\ inflight' = inflight \cup
                  {[worker |-> w, tenant |-> t, payload |-> p,
                    number |-> CreditNoteNumberFor(t, p)]}
             /\ UNCHANGED <<resp, hist>>
        ELSE /\ resp' = Response("create_credit_note", o.code, o.detail, 0, "")
             /\ hist' = CreditFacts(t, p)
             /\ UNCHANGED inflight
     /\ UNCHANGED <<store, today>>

\* create_credit_note from the construction of the row to the commit
credit_commit(w) ==
  \E r \in inflight :
    LET id == Cardinality(credit_notes) + 1
    IN /\ r.worker = w
       /\ IF CreditNoteKwargs \subseteq CreditNoteColumns
          THEN /\ credit_notes' =
                    credit_notes \cup {CreditNoteRow(id, r.tenant, r.number, r.payload)}
               /\ resp' = Response("create_credit_note", 201, "", id, "Issued")
          ELSE /\ UNCHANGED credit_notes
               /\ resp' = Response("create_credit_note", 500, "TypeError", 0, "")
       /\ inflight' = inflight \ {r}
       /\ hist' = NoFacts
       /\ UNCHANGED <<customers, sessions, invoices, receipts, allocations, invoice_seq, today>>

NextConcCredit ==
  \/ \E p \in InvoiceRequests({0}) : p.customerId = "c1" /\ create_invoice("T1", p)
  \/ \E w \in Workers, p \in ConcCreditRequests : credit_read(w, "T1", p)
  \/ \E w \in Workers : credit_commit(w)
  \/ Return

SpecConcCredit == Init /\ [][NextConcCredit]_vars

----------------------------------------------------------------------------
(* GET /dashboard/metrics *)

\* the mapped attributes of class Invoice
InvoiceColumns ==
  {"id", "tenant_id", "invoice_number", "invoice_date", "due_date",
   "customer_id", "customer_gst", "reference_number", "subtotal", "tax_total",
   "total", "status", "notes", "created_by", "created_at", "updated_at"}

\* the first day of the financial year today lies in
fy_start == today

\* the rows behind total_receivables and pending_count: selected by the
\* stored status column
receivable_rows(t) ==
  {i \in invoices : i.tenant_id = t /\ i.status \in {"Pending", "Overdue"}}

\* the rows behind total_revenue
revenue_rows(t) ==
  {i \in invoices : i.tenant_id = t /\ i.status = "Paid"
                    /\ i.invoice_date >= fy_start}

total_receivables(t) ==
  LET R == receivable_rows(t) IN SumOver([i \in R |-> i.total], R)

total_revenue(t) ==
  LET R == revenue_rows(t) IN SumOver([i \in R |-> i.total], R)

pending_count(t) == Cardinality(receivable_rows(t))

get_dashboard_metrics(t) ==
  /\ Idle
  /\ resp' =
       IF "payment_date" \notin InvoiceColumns
         \* the average collection period reads Invoice.payment_date: the
         \* class has no such attribute
         THEN Response("get_dashboard_metrics", 500, "AttributeError", 0, "")
       ELSE [Response("get_dashboard_metrics", 200, "", 0, "") EXCEPT
               !.rows = {<<"totalReceivables", ToFloat(total_receivables(t))>>,
                         <<"totalRevenue", ToFloat(total_revenue(t))>>,
                         <<"pendingInvoices", pending_count(t)>>}]
  /\ hist' = NoFacts
  /\ UNCHANGED <<store, today, inflight>>

----------------------------------------------------------------------------
(* GET /customers/{customerId}/pending-invoices *)

\* the rows the joined query selects for a customer
pending_query(t, c) ==
  {i \in invoices : /\ i.customer_id = c
                    /\ i.tenant_id = t
                    /\ i.payment_status \in {"unpaid", "partially_paid"}}

\* the result list after the sort by invoiceDate: every kept invoice with its
\* place, the number of kept invoices dated before it
pending_result(t, c) ==
  LET kept == {i \in pending_query(t, c) : Outstanding(i) > 0}
  IN {<<Cardinality({j \in kept : j.invoice_date < i.invoice_date}), i.id>> :
        i \in kept}

get_customer_pending_invoices(t, c) ==
  /\ Idle
  /\ resp' =
       IF ~CustomerInTenant(c, t)
         THEN Response("get_customer_pending_invoices", 404, "customer_not_found", 0, "")
       ELSE IF "payment_status" \notin InvoiceColumns
         \* Invoice.payment_status: the class has no such attribute
         THEN Response("get_customer_pending_invoices", 500, "AttributeError", 0, "")
       ELSE [Response("get_customer_pending_invoices", 200, "", 0, "") EXCEPT
               !.rows = pending_result(t, c)]
  /\ hist' = NoFacts
  /\ UNCHANGED <<store, today, inflight>>

----------------------------------------------------------------------------
(* SpecDash: invoices, receipts, the clock, the dashboard and the list of a
   customer's pending invoices *)

NextDash ==
  \/ \E c \in Callers, p \in InvoiceRequests(Dates) :
       p.customerId = c[2] /\ create_invoice(c[1], p)
  \/ \E c \in Callers, p \in StatusReceiptRequests :
       p.customerId = c[2] /\ create_receipt(c[1], p)
  \/ \E t \in Tenants : get_dashboard_metrics(t)
  \/ \E t \in Tenants, c \in CustomerIds : get_customer_pending_invoices(t, c)
  \/ Tick
  \/ Return

SpecDash == Init /\ [][NextDash]_vars

\* C22: the dashboard answers, and the invoices behind totalReceivables and
\* pendingInvoices are exactly the tenant's invoices whose resolved status is
\* Pending or Overdue, and those behind totalRevenue all resolve to Paid
C22_DashboardMatchesResolver ==
  /\ resp.op = "get_dashboard_metrics" => resp.code = 200
  /\ \A t \in Tenants :
       LET mine == {i \in invoices : i.tenant_id = t}
       IN /\ receivable_rows(t) =
               {i \in mine : calculate_invoice_status(i) \in {"Pending", "Overdue"}}
          /\ revenue_rows(t) \subseteq
               {i \in mine : calculate_invoice_status(i) = "Paid"}

----------------------------------------------------------------------------
(* SpecShape: requests with empty lists and with amounts at and below the
   schema's minimum *)

\* an invoice request without line items next to the ones of one line
ShapeInvoiceRequests ==
  {p \in InvoiceRequests({0}) : p.customerId = "c1"}
  \cup {[customerId |-> "c1", invoiceNumber |-> NoNumber, invoiceDate |-> 0,
         dueDate |-> 0, lineItems |-> <<>>]}

\* allocated amounts in mills: 0, 0.004, 0.01, 0.014 and 1.02
ShapeAllocationAmounts == {0, 4, 10, 14, 1020}

ShapeReceiptRequests ==
  {[customerId |-> "c1", receiptId |-> NoNumber, receiptDate |-> 0,
    amountReceived |-> 2040, allocations |-> al] :
     al \in {<<>>} \cup
            {<<[invoiceId |-> i, amountAllocated |-> a]>> :
               i \in InvoiceIds, a \in ShapeAllocationAmounts}}

NextShape ==
  \/ \E p \in ShapeInvoiceRequests : create_invoice("T1", p)
  \/ \E p \in ShapeReceiptRequests : create_receipt("T1", p)
  \/ \E id \in InvoiceIds : delete_invoice("T1", id)
  \/ Return

SpecShape == Init /\ [][NextShape]_vars

\* C23: in every committed state each receipt has at least one allocation,
\* each allocation has a positive allocated_amount and refers to an existing
\* receipt and an existing invoice, and each invoice has at least one line
\* item
C23_RowsWellFormed ==
  /\ \A r \in receipts : ReceiptAllocations(r.id) # {}
  /\ \A a \in allocations :
       /\ a.allocated_amount > 0
       /\ \E r \in receipts : r.id = a.receipt_id
       /\ \E i \in invoices : i.id = a.invoice_id
  /\ \A i \in invoices : Len(i.line_items) >= 1

\* a receipt with an allocation of the smallest accepted amount is stored,
\* and the deletion of the invoice it settles in part has been refused
C23_Witness ==
  /\ \E a \in allocations : a.allocated_amount = 1 /\ a.invoice_id = resp.id
  /\ resp.op = "delete_invoice" /\ resp.detail = "has_receipts"

\* C24: the list of a customer's pending invoices is answered for every
\* customer of the caller's tenant, and holds exactly that customer's invoices
\* with an outstanding amount above zero, the ones createReceipt does not
\* refuse as fully paid, oldest invoice date first
C24_PendingInvoicesListed ==
  (resp.op = "get_customer_pending_invoices" /\ resp.code # 404) =>
    /\ resp.code = 200
    /\ \E t \in Tenants, c \in CustomerIds :
         LET open == {i \in invoices : /\ i.customer_id = c /\ i.tenant_id = t
                                       /\ CheckAllocation(
                                            [invoiceId |-> i.id,
                                             amountAllocated |-> MinAllocated])
                                            # "fully_paid"}
         IN /\ CustomerInTenant(c, t)
            /\ {r[2] : r \in resp.rows} = {i.id : i \in open}
            /\ \A r1, r2 \in resp.rows :
                 r1[1] < r2[1] =>
                   InvoiceById(r1[2]).invoice_date < InvoiceById(r2[2]).invoice_date

----------------------------------------------------------------------------
(* POST /auth/login, /auth/refresh, /auth/logout.  A token is the string
   jwt.encode returns; the model names it by its type, the session it was
   issued for and, for an access token, how many refreshes preceded it.
   Tokens are within their lifetime. *)

\* verified, active users
UserRows == {[id |-> "u1", tenant_id |-> "T1"], [id |-> "u2", tenant_id |-> "T2"]}

RefreshToken(sid) == <<"refresh", sid>>
AccessToken(sid, n) == <<"access", sid, n>>
\* a string that is no token of this server
GarbageToken == <<"garbage">>
\* no Authorization header
NoToken == <<>>

\* the sessions a token was issued for
IssuedFor(tok) ==
  {s \in sessions :
     \/ tok = s.refresh_token
     \/ (tok # NoToken /\ tok[1] = "access" /\ tok[2] = s.id
         /\ tok[3] <= s.access_token[3])}

\* decode_token: the claims of a token this server signed; fails on any
\* other string
decode_token(tok) ==
  IF IssuedFor(tok) = {} THEN [ok |-> FALSE, sub |-> ""]
  ELSE [ok |-> TRUE, sub |-> (CHOOSE s \in IssuedFor(tok) : TRUE).user_id]

\* AuthService.login_user for a request with the user's email
login_user(u, password_ok) ==
  LET sid == Cardinality(sessions) + 1
  IN /\ Idle
     /\ Cardinality(sessions) < MaxSessions
     /\ IF ~password_ok
        THEN /\ resp' = Response("login_user", 401, "invalid_credentials", 0, "")
             /\ UNCHANGED sessions
        ELSE /\ sessions' = sessions \cup
                  {[id |-> sid, user_id |-> u,
                    refresh_token |-> RefreshToken(sid),
                    access_token |-> AccessToken(sid, 0),
                    is_active |-> TRUE]}
             /\ resp' = Response("login_user", 200, "", sid, "")
     /\ hist' = NoFacts
     /\ UNCHANGED <<customers, invoices, receipts, allocations, credit_notes,
                    invoice_seq, today, inflight>>

\* a slip of RefreshTokenRequestFields: the field has the name the handler
\* reads
RefreshTokenRequestFields_Camel == {"refreshToken"}

\* the fields of the request schema RefreshTokenRequest
RefreshTokenRequestFields == {"refresh_token"}

\* POST /auth/refresh; the response's id is the session the presented token is
\* the refresh token of, 0 when there is none
refresh(tok) ==
  LET owner == {s \in sessions : s.refresh_token = tok}
      sid == IF owner = {} THEN 0 ELSE (CHOOSE s \in owner : TRUE).id
      found == {s \in owner : s.is_active}
  IN /\ Idle
     /\ IF "refreshToken" \notin RefreshTokenRequestFields \/ ~decode_token(tok).ok
        \* payload.refreshToken raises AttributeError inside the try block,
        \* which the handler answers like a token that does not decode
        THEN /\ resp' = Response("refresh", 401, "invalid_refresh_token", sid, "")
             /\ UNCHANGED sessions
        ELSE IF found = {}
        THEN /\ resp' = Response("refresh", 404, "session_not_found", sid, "")
             /\ UNCHANGED sessions
        ELSE LET session == CHOOSE s \in found : TRUE
                 n == session.access_token[3] + 1
             IN /\ n <= MaxRefreshes
                /\ sessions' = (sessions \ {session}) \cup
                     {[session EXCEPT !.access_token = AccessToken(session.id, n)]}
                /\ resp' = Response("refresh", 200, "", sid, "")
     /\ hist' = NoFacts
     /\ UNCHANGED <<customers, invoices, receipts, allocations, credit_notes,
                    invoice_seq, today, inflight>>

\* POST /auth/logout; the response's id is the session the presented token
\* was issued for as an access token, 0 when there is none
logout(tok) ==
  LET issued == IssuedFor(tok)
      sid == IF issued = {} \/ tok[1] # "access" THEN 0
             ELSE (CHOOSE s \in issued : TRUE).id
      found == {s \in sessions : /\ s.user_id = decode_token(tok).sub
                                 /\ s.access_token = tok
                                 /\ s.is_active}
  IN /\ Idle
     /\ IF tok = NoToken
        THEN /\ resp' = Response("logout", 401, "missing_header", 0, "")
             /\ UNCHANGED sessions
        ELSE IF ~decode_token(tok).ok
        THEN /\ resp' = Response("logout", 401, "invalid_token", 0, "")
             /\ UNCHANGED sessions
        ELSE /\ IF found # {}
                THEN LET session == CHOOSE s \in found : TRUE
                     IN sessions' = (sessions \ {session}) \cup
                          {[session EXCEPT !.is_active = FALSE]}
                ELSE UNCHANGED sessions
             /\ resp' = Response("logout", 200, "logged_out", sid, "")
     /\ hist' = NoFacts
     /\ UNCHANGED <<customers, invoices, receipts, allocations, credit_notes,
                    invoice_seq, today, inflight>>

Tokens ==
  {NoToken, GarbageToken}
  \cup {RefreshToken(sid) : sid \in 1..MaxSessions}
  \cup {AccessToken(sid, n) : sid \in 1..MaxSessions, n \in 0..MaxRefreshes}

NextAuth ==
  \/ \E u \in UserRows, ok \in BOOLEAN : login_user(u.id, ok)
  \/ \E tok \in Tokens : refresh(tok)
  \/ \E tok \in Tokens : logout(tok)
  \/ Return

SpecAuth == Init /\ [][NextAuth]_vars

----------------------------------------------------------------------------
(* Properties of SpecConc: numbers *)

\* C26: creates that omit the number and run side by side never both commit
\* rows of one tenant with the same generated number, for receipts, invoices
\* and credit notes alike
C26_ConcurrentNumbersDistinct ==
  /\ \A r1 \in receipts, r2 \in receipts :
       (r1.id # r2.id /\ r1.tenant_id = r2.tenant_id)
         => r1.receipt_number # r2.receipt_number
  /\ \A i1 \in invoices, i2 \in invoices :
       (i1.id # i2.id /\ i1.tenant_id = i2.tenant_id)
         => i1.invoice_number # i2.invoice_number
  /\ \A n1 \in credit_notes, n2 \in credit_notes :
       (n1.id # n2.id /\ n1.tenant_id = n2.tenant_id)
         => n1.credit_note_number # n2.credit_note_number

----------------------------------------------------------------------------
(* DELETE /customers/{id} *)

\* rows whose customer_id the database keeps from losing its customer: the
\* columns are NOT NULL foreign keys with ON DELETE RESTRICT
CustomerReferenced(c) ==
  \/ \E i \in invoices : i.customer_id = c
  \/ \E r \in receipts : r.customer_id = c
  \/ \E n \in credit_notes : n.customer_id = c

\* a slip of delete_customer: the row is deleted whenever it is found
delete_customer_AlwaysHard(t, c) ==
  /\ Idle
  /\ IF ~CustomerInTenant(c, t)
     THEN /\ resp' = Response("delete_customer", 404, "not_found", 0, "")
          /\ UNCHANGED customers
     ELSE /\ customers' = {r \in customers : r.id # c}
          /\ resp' = Response("delete_customer", 200, "hard", 0, "")
  /\ hist' = NoFacts
  /\ UNCHANGED <<invoices, receipts, allocations, credit_notes, invoice_seq,
                 sessions, today, inflight>>

delete_customer(t, c) ==
  LET invoice_count ==
        Cardinality({i \in invoices : i.customer_id = c /\ i.tenant_id = t})
  IN /\ Idle
     /\ IF ~CustomerInTenant(c, t)
        THEN /\ resp' = Response("delete_customer", 404, "not_found", 0, "")
             /\ UNCHANGED customers
        ELSE IF invoice_count > 0
        THEN /\ customers' = {IF r.id = c THEN [r EXCEPT !.is_active = FALSE] ELSE r :
                                r \in customers}
             /\ resp' = Response("delete_customer", 200, "soft", 0, "")
        ELSE IF CustomerReferenced(c)
        \* the flush of db.delete(customer) fails on the referencing rows
        THEN /\ resp' = Response("delete_customer", 500, "IntegrityError", 0, "")
             /\ UNCHANGED customers
        ELSE /\ customers' = {r \in customers : r.id # c}
             /\ resp' = Response("delete_customer", 200, "hard", 0, "")
     /\ hist' = NoFacts
     /\ UNCHANGED <<invoices, receipts, allocations, credit_notes, invoice_seq,
                    sessions, today, inflight>>

----------------------------------------------------------------------------
(* SpecCustomer: customers are deleted while invoices, receipts and credit
   notes come and go *)

CustomerCreditRequests ==
  {[customerId |-> c, invoiceId |-> i, creditNoteId |-> NoNumber,
    creditNoteDate |-> 0, amount |-> 1000, gstRate |-> 2] :
     c \in {"c1", "c2"}, i \in {NoInvoice, 1}}

NextCustomer ==
  \/ \E p \in InvoiceRequests({0}) :
       p.customerId \in {"c1", "c2"} /\ create_invoice("T1", p)
  \/ \E p \in StatusReceiptRequests : p.customerId = "c1" /\ create_receipt("T1", p)
  \/ \E p \in CustomerCreditRequests : create_credit_note("T1", p)
  \/ \E id \in InvoiceIds : delete_invoice("T1", id)
  \/ \E t \in Tenants, c \in CustomerIds : delete_customer(t, c)
  \/ Return

SpecCustomer == Init /\ [][NextCustomer]_vars

\* C27: a step removes a customer row only when no invoice, receipt or credit
\* note refers to that customer, a credit note without an invoice included;
\* a row that stays keeps its tenant and is at most marked inactive
C27_ReferencedCustomerKept ==
  [][\A c \in customers :
       /\ (~\E d \in customers' : d.id = c.id) =>
             /\ ~\E i \in invoices : i.customer_id = c.id
             /\ ~\E r \in receipts : r.customer_id = c.id
             /\ ~\E n \in credit_notes : n.customer_id = c.id
       /\ \A d \in customers' : d.id = c.id => d.tenant_id = c.tenant_id]_vars

\* a customer with an invoice and a receipt was deleted and is kept, marked
\* inactive, while a customer without documents is gone
C27_Witness ==
  /\ \E c \in customers :
       /\ ~c.is_active
       /\ \E r \in receipts : r.customer_id = c.id
       /\ \E i \in invoices : i.customer_id = c.id
  /\ ~\E c \in customers : c.id = "c2"

----------------------------------------------------------------------------
(* SpecPaid: invoices of 1.02 and of 0.00 are paid, credited, edited and
   deleted while days pass *)

PaidInvoiceRequests ==
  {[customerId |-> "c1", invoiceNumber |-> NoNumber, invoiceDate |-> 0,
    dueDate |-> 0,
    lineItems |-> <<[serviceType |-> "s1", quantity |-> 100, rate |-> r,
                     taxRate |-> 2]>>] : r \in {0, 100}}

PaidCreditRequests ==
  {[customerId |-> "c1", invoiceId |-> i, creditNoteId |-> NoNumber,
    creditNoteDate |-> 0, amount |-> 1000, gstRate |-> 2] : i \in InvoiceIds}

NextPaid ==
  \/ \E p \in PaidInvoiceRequests : create_invoice("T1", p)
  \/ \E p \in StatusReceiptRequests : p.customerId = "c1" /\ create_receipt("T1", p)
  \/ \E p \in PaidCreditRequests : create_credit_note("T1", p)
  \/ \E id \in InvoiceIds, p \in UpdateRequests : update_invoice("T1", id, p)
  \/ \E id \in InvoiceIds : delete_invoice("T1", id)
  \/ Tick
  \/ Return

SpecPaid == Init /\ [][NextPaid]_vars

\* C28: an invoice whose resolved status is Paid is there and Paid after every
\* step, with the same total and with allocations that sum to no less
C28_PaidAbsorbing ==
  [][\A i \in invoices :
       calculate_invoice_status(i) = "Paid" =>
         \E j \in invoices' :
           /\ j.id = i.id
           /\ calculate_invoice_status(j)' = "Paid"
           /\ j.total = i.total
           /\ SumAllocated(j.id)' >= SumAllocated(i.id)]_vars

----------------------------------------------------------------------------
(* GET /invoices/next-number, /receipts/next-number, /credit-notes/next-number *)

\* the preview shared by the three handlers: numbers holds the tenant's
\* numbers of one table; the highest one of this year's pattern is taken and
\* its sequence raised by one
NextNumberPreview(prefix, numbers) ==
  LET current_year == Year(today)
      matching == {n \in numbers : n # NoNumber /\ n[1] = prefix /\ n[2] = current_year}
      sequence == IF matching = {} THEN 1
                  ELSE (CHOOSE n \in matching : \A m \in matching : m[3] <= n[3])[3] + 1
  IN FormatNumber(prefix, current_year, sequence)

next_invoice_number(t) ==
  NextNumberPreview("INV", {i.invoice_number : i \in {j \in invoices : j.tenant_id = t}})

next_receipt_number(t) ==
  NextNumberPreview("RCT", {r.receipt_number : r \in {j \in receipts : j.tenant_id = t}})

next_credit_note_number(t) ==
  NextNumberPreview("CN", {n.credit_note_number :
                             n \in {j \in credit_notes : j.tenant_id = t}})

get_next_invoice_number(t) ==
  /\ Idle
  /\ resp' = [Response("get_next_invoice_number", 200, "", 0, "") EXCEPT
                !.rows = {next_invoice_number(t)}]
  /\ hist' = NoFacts
  /\ UNCHANGED <<store, today, inflight>>

get_next_receipt_number(t) ==
  /\ Idle
  /\ resp' = [Response("get_next_receipt_number", 200, "", 0, "") EXCEPT
                !.rows = {next_receipt_number(t)}]
  /\ hist' = NoFacts
  /\ UNCHANGED <<store, today, inflight>>

get_next_credit_note_number(t) ==
  /\ Idle
  /\ resp' = [Response("get_next_credit_note_number", 200, "", 0, "") EXCEPT
                !.rows = {next_credit_note_number(t)}]
  /\ hist' = NoFacts
  /\ UNCHANGED <<store, today, inflight>>

----------------------------------------------------------------------------
(* SpecPreview: numbers are previewed between creates, over more than one
   year *)

NextPreview ==
  \/ \E c \in Callers, p \in InvoiceRequests(Dates) :
       p.customerId = c[2] /\ create_invoice(c[1], p)
  \/ \E c \in Callers, p \in NumberReceiptRequests :
       p.customerId = c[2] /\ create_receipt(c[1], p)
  \/ \E t \in Tenants : get_next_invoice_number(t)
  \/ \E t \in Tenants : get_next_receipt_number(t)
  \/ \E t \in Tenants : get_next_credit_note_number(t)
  \/ Tick
  \/ Return

SpecPreview == Init /\ [][NextPreview]_vars

\* C29: in every state the number a preview returns for a tenant is the number
\* a create of that tenant would assign next to a request without a number
\* dated today, for receipts, invoices and credit notes; a preview changes
\* nothing
C29_PreviewAgrees ==
  /\ [](\A t \in Tenants :
          /\ next_receipt_number(t) =
               ReceiptNumberFor(t, [receiptId |-> NoNumber, receiptDate |-> today])
          /\ next_invoice_number(t) =
               InvoiceNumberFor(t, [invoiceNumber |-> NoNumber, invoiceDate |-> today])
          /\ next_credit_note_number(t) =
               CreditNoteNumberFor(t, [creditNoteId |-> NoNumber,
                                       creditNoteDate |-> today]))
  /\ [][resp'.op \in {"get_next_invoice_number", "get_next_receipt_number",
                      "get_next_credit_note_number"}
          => UNCHANGED <<store, today>>]_vars

----------------------------------------------------------------------------
(* Properties of Spec: one invoice named more than once in a request *)

\* C30: a createReceipt request that names one invoice in several allocations
\* is accepted only if those allocations together are within what was
\* outstanding on the invoice before the request
C30_DuplicatesCumulative ==
  (resp.op = "create_receipt" /\ resp.code = 201) =>
    \A i \in invoices :
      LET mine == {a \in AllocationsOf(i.id) : a.receipt_id = resp.id}
          others == AllocationsOf(i.id) \ mine
      IN Cardinality(mine) >= 2 =>
           SumOver([a \in mine |-> a.allocated_amount], mine)
             <= i.total - SumOver([a \in others |-> a.allocated_amount], others)

=============================================================================
